---------------------------- MODULE Spec2Model ----------------------------
(***************************************************************************)
(* The recover_account management command                                  *)
(* (common/djangoapps/student/management/commands/recover_account.py).     *)
(*                                                                         *)
(* Command.handle reads a csv file of (username, email, new_email) rows,   *)
(* and for every row looks the account up, overwrites its email, saves it, *)
(* sends a password reset message and records the outcome in one of two    *)
(* lists; a summary is logged after the last row.                          *)
(*                                                                         *)
(* The account store, the message dispatcher and the logger are external:  *)
(* the store is the variable db, the messages handed to ace.send are the   *)
(* variable sent, the log records are the variable log.  A call into a     *)
(* collaborator either returns or raises; which one is the environment's   *)
(* choice.                                                                 *)
(***************************************************************************)
EXTENDS Naturals, Sequences, FiniteSets, TLC

\* Longest csv file (number of data rows) of the model.
MaxRows == 2

\* Number of rows of the files whose two processing orders are compared.
MaxPermRows == 2

---------------------------------------------------------------------------
(* The values the fields of accounts and rows range over. *)

Ids == {"id1", "id2"}
None == "None"

\* auth_user.username is unique: one username per account.
UsernameOf == [a \in Ids |-> IF a = "id1" THEN "alice" ELSE "bob"]

\* The email an account may hold before the command starts.
InitialEmails == [a \in Ids |-> IF a = "id1" THEN {"a@x", "n@x"} ELSE {"b@x", "A@X"}]

RowUsernames == {"alice", "carol"}
RowEmails == {"a@x", "A@X", "b@x", "n@x"}
RowNewEmails == {"n@x", "m@x"}

\* The three columns handle() reads from every row.
RequiredFields == {"username", "email", "new_email"}

\* Header rows of the files of the model: the documented one, and one
\* without the new_email column.
Headers == {RequiredFields, {"username", "email"}}

\* What csv.DictReader produces for a data row under a header: a dict with
\* exactly the header's keys.
RowsOf(fieldnames) ==
    IF fieldnames = RequiredFields
    THEN [username : RowUsernames, email : RowEmails, new_email : RowNewEmails]
    ELSE [username : RowUsernames, email : RowEmails]

SeqsUpTo(S, n) == UNION {[1..k -> S] : k \in 0..n}

\* path.isfile(file_path) is false: nothing to read.
NoFile == [exists |-> FALSE]

Files ==
    {NoFile} \cup
    UNION {[exists : {TRUE}, fieldnames : {h}, rows : SeqsUpTo(RowsOf(h), MaxRows)] : h \in Headers}

Stores == {d \in [Ids -> [username : {"alice", "bob"}, email : {"a@x", "n@x", "b@x", "A@X"}]] :
              \A a \in Ids : d[a].username = UsernameOf[a] /\ d[a].email \in InitialEmails[a]}

---------------------------------------------------------------------------
VARIABLES
    file,                \* the csv file at options['csv_file_path']
    db,                  \* the account store: id -> [username, email]
    db0,                 \* history: the account store when the command started
    pc,                  \* position in handle()
    csv_reader,          \* the rows read from the file
    i,                   \* position of the row the loop is at
    user,                \* the account object the lookup returned
    matched,             \* history: the ids the current row's lookup matched
    exc,                 \* the exception the except clause caught
    successful_updates,
    failed_updates,
    sent,                \* the messages given to ace.send, in order
    log,                 \* the log records written, in order
    attempts,            \* history: one record per row that was processed
    reordered            \* the outcome of the same command over the rows in another order

vars == <<file, db, db0, pc, csv_reader, i, user, matched, exc,
          successful_updates, failed_updates, sent, log, attempts, reordered>>

---------------------------------------------------------------------------
(* Pure parts of the code. *)

\* email__iexact compares case-insensitively.
Lower(e) == IF e = "A@X" THEN "a@x" ELSE e

IExact(x, y) == Lower(x) = Lower(y)

\* The accounts selected by Q(username=username) | Q(email__iexact=email).
Matches(store, username, email) ==
    {a \in Ids : store[a].username = username \/ IExact(store[a].email, email)}

\* objects.get() returns an account when exactly one is selected; it raises
\* DoesNotExist for none and MultipleObjectsReturned for several.
Resolves_any(m) == m # {}

Resolves(m) == Cardinality(m) = 1

\* A save that never reaches the store.
Save_noop(store, a, new_email) == store

\* An update that is not restricted to the account.
Save_bulk(store, a, new_email) == [b \in Ids |-> [store[b] EXCEPT !.email = new_email]]

\* user.email = new_email; user.save()
Save(store, a, new_email) == [store EXCEPT ![a].email = new_email]

\* A message addressed to the new address.
ResetMessage_to_new(store, a, email, new_email) ==
    [username |-> store[a].username, email_address |-> new_email, uid |-> a]

\* The message ace.send receives: Recipient(user.username, email), and the
\* account id the reset link embeds.
ResetMessage(store, a, email, new_email) ==
    [username |-> store[a].username, email_address |-> email, uid |-> a]

\* No check of the path.
IsFile_always(f) == TRUE

\* path.isfile(file_path)
IsFile(f) == f.exists

\* successful_updates.append(new_email)
AppendSuccess(list, email, new_email) == Append(list, new_email)

\* The failure list kept without repetitions.
AppendFailure_dedup(list, email, new_email) ==
    IF \E k \in 1..Len(list) : list[k] = email THEN list ELSE Append(list, email)

\* The failure list fed with the new address.
AppendFailure_new_email(list, email, new_email) == Append(list, new_email)

\* failed_updates.append(email)
AppendFailure(list, email, new_email) == Append(list, email)

---------------------------------------------------------------------------
Init ==
    /\ file \in Files
    /\ db \in Stores
    /\ db0 = db
    /\ pc = "handle"
    /\ csv_reader = <<>>
    /\ i = 0
    /\ user = None
    /\ matched = {}
    /\ exc = None
    /\ successful_updates = <<>>
    /\ failed_updates = <<>>
    /\ sent = <<>>
    /\ log = <<>>
    /\ attempts = <<>>
    /\ reordered = None

row == csv_reader[i]

\* A loop that is left after its first pass.
NextRow_break ==
    /\ i' = i + 1
    /\ pc' = "summary"
    /\ user' = None
    /\ matched' = {}
    /\ exc' = None

\* The loop moves to the next row, or leaves when the rows are exhausted.
NextRow ==
    /\ i' = i + 1
    /\ pc' = IF i + 1 <= Len(csv_reader) THEN "row" ELSE "summary"
    /\ user' = None
    /\ matched' = {}
    /\ exc' = None

\* if not path.isfile(file_path): raise CommandError('File not found.')
CheckFile ==
    /\ pc = "handle"
    /\ pc' = IF IsFile(file) THEN "open" ELSE "CommandError"
    /\ UNCHANGED <<file, db, db0, csv_reader, i, user, matched, exc,
                   successful_updates, failed_updates, sent, log, attempts, reordered>>

\* open(), list(unicodecsv.DictReader(csv_file)), the two empty lists and
\* Site.objects.get_current().
ReadCsv ==
    /\ pc = "open"
    /\ file.exists
    /\ csv_reader' = file.rows
    /\ successful_updates' = <<>>
    /\ failed_updates' = <<>>
    /\ i' = 1
    /\ pc' = IF Len(file.rows) >= 1 THEN "row" ELSE "summary"
    /\ UNCHANGED <<file, db, db0, user, matched, exc, sent, log, attempts, reordered>>

\* open(), the decoding of the file or the site lookup raises: nothing
\* catches it.
ReadCsvRaises ==
    /\ pc = "open"
    /\ pc' = "ReadError"
    /\ UNCHANGED <<file, db, db0, csv_reader, i, user, matched, exc,
                   successful_updates, failed_updates, sent, log, attempts, reordered>>

\* row['username'], row['email'], row['new_email'] are read before the try
\* block: a missing key raises KeyError out of handle().
RowKeyError ==
    /\ pc = "row"
    /\ ~(RequiredFields \subseteq DOMAIN row)
    /\ pc' = "KeyError"
    /\ UNCHANGED <<file, db, db0, csv_reader, i, user, matched, exc,
                   successful_updates, failed_updates, sent, log, attempts, reordered>>

\* get_user_model().objects.get(Q(username=username) | Q(email__iexact=email))
Lookup ==
    /\ pc = "row"
    /\ RequiredFields \subseteq DOMAIN row
    /\ LET m == Matches(db, row.username, row.email) IN
        /\ matched' = m
        /\ IF Resolves(m)
           THEN /\ user' = CHOOSE a \in m : TRUE
                /\ exc' = None
                /\ pc' = "save"
           ELSE /\ user' = None
                /\ exc' = IF m = {} THEN "DoesNotExist" ELSE "MultipleObjectsReturned"
                /\ pc' = "except"
    /\ UNCHANGED <<file, db, db0, csv_reader, i,
                   successful_updates, failed_updates, sent, log, attempts, reordered>>

\* user.email = new_email; user.save() returns.
SaveUser ==
    /\ pc = "save"
    /\ db' = Save(db, user, row.new_email)
    /\ pc' = "send"
    /\ UNCHANGED <<file, db0, csv_reader, i, user, matched, exc,
                   successful_updates, failed_updates, sent, log, attempts, reordered>>

\* user.save() raises: the store is not written.
SaveRaises ==
    /\ pc = "save"
    /\ exc' = "SaveError"
    /\ pc' = "except"
    /\ UNCHANGED <<file, db, db0, csv_reader, i, user, matched,
                   successful_updates, failed_updates, sent, log, attempts, reordered>>

\* self.send_password_reset_email(user, email, site) returns.
SendPasswordResetEmail ==
    /\ pc = "send"
    /\ sent' = Append(sent, ResetMessage(db, user, row.email, row.new_email))
    /\ pc' = "append"
    /\ UNCHANGED <<file, db, db0, csv_reader, i, user, matched, exc,
                   successful_updates, failed_updates, log, attempts, reordered>>

\* send_password_reset_email raises before ace.send delivered anything.
SendRaises ==
    /\ pc = "send"
    /\ exc' = "SendError"
    /\ pc' = "except"
    /\ UNCHANGED <<file, db, db0, csv_reader, i, user, matched,
                   successful_updates, failed_updates, sent, log, attempts, reordered>>

\* successful_updates.append(new_email)
RecordSuccess ==
    /\ pc = "append"
    /\ successful_updates' = AppendSuccess(successful_updates, row.email, row.new_email)
    /\ attempts' = Append(attempts, [matched |-> matched, saved |-> TRUE,
                                     notified |-> TRUE, list |-> "successful"])
    /\ NextRow
    /\ UNCHANGED <<file, db, db0, csv_reader, failed_updates, sent, log, reordered>>

\* An except clause that puts back the account as it was before the run.
Except_rollback ==
    /\ pc = "except"
    /\ log' = Append(log, [level |-> "exception", email |-> row.email, exp |-> exc])
    /\ failed_updates' = AppendFailure(failed_updates, row.email, row.new_email)
    /\ attempts' = Append(attempts, [matched |-> matched, saved |-> exc = "SendError",
                                     notified |-> FALSE, list |-> "failed"])
    /\ db' = IF user = None THEN db ELSE [db EXCEPT ![user] = db0[user]]
    /\ NextRow
    /\ UNCHANGED <<file, db0, csv_reader, successful_updates, sent, reordered>>

\* except (ObjectDoesNotExist, Exception) as exc: logger.exception(...);
\* failed_updates.append(email)
Except ==
    /\ pc = "except"
    /\ log' = Append(log, [level |-> "exception", email |-> row.email, exp |-> exc])
    /\ failed_updates' = AppendFailure(failed_updates, row.email, row.new_email)
    /\ attempts' = Append(attempts, [matched |-> matched, saved |-> exc = "SendError",
                                     notified |-> FALSE, list |-> "failed"])
    /\ NextRow
    /\ UNCHANGED <<file, db, db0, csv_reader, successful_updates, sent, reordered>>

\* logger.info('Successfully updated ... Failed to update ...')
Summary ==
    /\ pc = "summary"
    /\ log' = Append(log, [level |-> "info", successful |-> successful_updates,
                           failed |-> failed_updates])
    /\ pc' = "done"
    /\ UNCHANGED <<file, db, db0, csv_reader, i, user, matched, exc,
                   successful_updates, failed_updates, sent, attempts, reordered>>

Next ==
    \/ CheckFile
    \/ ReadCsv
    \/ ReadCsvRaises
    \/ RowKeyError
    \/ Lookup
    \/ SaveUser
    \/ SaveRaises
    \/ SendPasswordResetEmail
    \/ SendRaises
    \/ RecordSuccess
    \/ Except
    \/ Summary

Spec == Init /\ [][Next]_vars

---------------------------------------------------------------------------
(* The same loop as a function of the file, for comparing two runs.        *)
(* A run is [db, successful_updates, failed_updates, sent, attempts]; the  *)
(* environment's choice for a row is the value of env: every call returns, *)
(* user.save() raises, or send_password_reset_email raises.                *)

Envs == {"returns", "save_raises", "send_raises"}

StartOfRun(store) ==
    [db |-> store, successful_updates |-> <<>>, failed_updates |-> <<>>,
     sent |-> <<>>, attempts |-> <<>>]

\* One pass of the loop body: lookup, save, send, append; or the except
\* clause at the first call that raises.
ProcessRow(run, r, env) ==
    LET m == Matches(run.db, r.username, r.email)
        failed(store, wasSaved) ==
            [run EXCEPT !.db = store,
                        !.failed_updates = AppendFailure(@, r.email, r.new_email),
                        !.attempts = Append(@, [matched |-> m, saved |-> wasSaved,
                                                notified |-> FALSE, list |-> "failed"])]
    IN  IF ~Resolves(m) \/ env = "save_raises"
        THEN failed(run.db, FALSE)
        ELSE LET a == CHOOSE x \in m : TRUE
                 saved == Save(run.db, a, r.new_email)
             IN  IF env = "send_raises"
                 THEN failed(saved, TRUE)
                 ELSE [db |-> saved,
                       successful_updates |->
                           AppendSuccess(run.successful_updates, r.email, r.new_email),
                       failed_updates |-> run.failed_updates,
                       sent |-> Append(run.sent, ResetMessage(saved, a, r.email, r.new_email)),
                       attempts |-> Append(run.attempts,
                                           [matched |-> m, saved |-> TRUE,
                                            notified |-> TRUE, list |-> "successful"])]

RECURSIVE RunRows_abort(_, _, _)
\* A loop without the except clause's "continue": it ends at the first row
\* that fails.
RunRows_abort(run, rows, envs) ==
    IF rows = <<>> THEN run
    ELSE LET after == ProcessRow(run, Head(rows), Head(envs))
         IN  IF after.attempts[Len(after.attempts)].list = "failed"
             THEN after
             ELSE RunRows_abort(after, Tail(rows), Tail(envs))

RECURSIVE RunRows(_, _, _)
\* for row in csv_reader: ...
RunRows(run, rows, envs) ==
    IF rows = <<>> THEN run
    ELSE RunRows(ProcessRow(run, Head(rows), Head(envs)), Tail(rows), Tail(envs))

\* The run the variables of a finished command describe.
ThisRun ==
    [db |-> db, successful_updates |-> successful_updates,
     failed_updates |-> failed_updates, sent |-> sent, attempts |-> attempts]

\* The environment's choices that the history of a finished command shows.
EnvsOfAttempts ==
    [k \in 1..Len(attempts) |->
        IF attempts[k].notified THEN "returns"
        ELSE IF attempts[k].saved THEN "send_raises"
        ELSE IF Resolves(attempts[k].matched) THEN "save_raises"
        ELSE "returns"]

\* The step-by-step command and the loop as a function agree.
RunRowsAgrees ==
    pc = "done" => RunRows(StartOfRun(db0), csv_reader, EnvsOfAttempts) = ThisRun

\* The files whose rows are processed in two orders.
OrderFiles ==
    [exists : {TRUE}, fieldnames : {RequiredFields},
     rows : SeqsUpTo({r \in RowsOf(RequiredFields) : r.email # "A@X"}, MaxPermRows)]

InitOrder ==
    /\ file \in OrderFiles
    /\ db \in Stores
    /\ db0 = db
    /\ pc = "handle"
    /\ csv_reader = <<>>
    /\ i = 0
    /\ user = None
    /\ matched = {}
    /\ exc = None
    /\ successful_updates = <<>>
    /\ failed_updates = <<>>
    /\ sent = <<>>
    /\ log = <<>>
    /\ attempts = <<>>
    /\ reordered = None

\* handle() over the file as given, and handle() over the same rows in the
\* order p, from the same account store and with the same environment
\* choice for every row.
RunInBothOrders ==
    /\ pc = "handle"
    /\ \E envs \in [1..Len(file.rows) -> Envs] :
          LET first == RunRows(StartOfRun(db0), file.rows, envs)
          IN  /\ csv_reader' = file.rows
              /\ db' = first.db
              /\ successful_updates' = first.successful_updates
              /\ failed_updates' = first.failed_updates
              /\ sent' = first.sent
              /\ attempts' = first.attempts
              /\ \E p \in Permutations(1..Len(file.rows)) :
                    reordered' = [order |-> p,
                                  run |-> RunRows(StartOfRun(db0),
                                                  [k \in 1..Len(p) |-> file.rows[p[k]]],
                                                  [k \in 1..Len(p) |-> envs[p[k]]])]
    /\ i' = Len(file.rows) + 1
    /\ pc' = "done"
    /\ UNCHANGED <<file, db0, user, matched, exc, log>>

NextOrder == RunInBothOrders

SpecOrder == InitOrder /\ [][NextOrder]_vars

---------------------------------------------------------------------------
(* Vocabulary of the properties. *)

Range(q) == {q[k] : k \in 1..Len(q)}

\* An exception left handle().
Aborted == pc \in {"CommandError", "ReadError", "KeyError"}

\* Between two rows, or after the last one.
AtRowBoundary == pc \in {"row", "summary", "done"}

\* The rows were read from the file.
Loaded == pc \notin {"handle", "open", "CommandError", "ReadError"}

\* The file exists and its header has the three columns handle() reads.
HeaderOk == file.exists /\ RequiredFields \subseteq file.fieldnames

\* The number of rows whose processing is over.
RowsDone ==
    IF ~Loaded THEN 0
    ELSE IF pc \in {"summary", "done"} THEN Len(csv_reader)
    ELSE i - 1

\* Row k resolved to account a alone, was saved and its message was sent.
Succeeded(k, a) ==
    /\ attempts[k].matched = {a}
    /\ attempts[k].saved
    /\ attempts[k].notified

\* A row after row k wrote account a.
OverwrittenLater(k, a) ==
    \E j \in (k + 1)..Len(attempts) : attempts[j].matched = {a} /\ attempts[j].saved

\* The positions of the processed rows that went to the given list, in order.
Listed(kind) ==
    SelectSeq([k \in 1..Len(attempts) |-> k], LAMBDA k : attempts[k].list = kind)

ExpectedSuccessful ==
    [j \in 1..Len(Listed("successful")) |-> csv_reader[Listed("successful")[j]].new_email]

ExpectedFailed ==
    [j \in 1..Len(Listed("failed")) |-> csv_reader[Listed("failed")[j]].email]

Summaries == {k \in 1..Len(log) : log[k].level = "info"}

\* How far handle() has come: it grows with every step.
Stage ==
    CASE pc \in {"handle", "row", "summary"} -> 0
      [] pc \in {"open", "save", "KeyError", "done"} -> 1
      [] pc \in {"send", "CommandError", "ReadError"} -> 2
      [] pc = "append" -> 3
      [] pc = "except" -> 4

Progress == 5 * i + Stage

---------------------------------------------------------------------------
(* C1 *)

\* C1 as stated: once the command is done, for every row whose lookup
\* resolved to exactly one account and whose save and notification
\* succeeded, that account's email is the row's new_email and the row's
\* new_email is in successful_updates.
C1_AfterRun ==
    pc = "done" =>
        \A k \in 1..Len(attempts) : \A a \in Ids :
            Succeeded(k, a) =>
                /\ db[a].email = csv_reader[k].new_email
                /\ csv_reader[k].new_email \in Range(successful_updates)

\* C1 (amended): between rows and at the end of the run, for every processed
\* row whose lookup resolved to exactly one account and whose save and
\* notification succeeded, the row's new_email is in successful_updates, and
\* the account's email is the row's new_email unless a later row that
\* resolved to the same account was saved.
C1_UntilOverwritten ==
    AtRowBoundary =>
        \A k \in 1..Len(attempts) : \A a \in Ids :
            Succeeded(k, a) =>
                /\ csv_reader[k].new_email \in Range(successful_updates)
                /\ attempts[k].list = "successful"
                /\ OverwrittenLater(k, a) \/ db[a].email = csv_reader[k].new_email

\* A finished run in which a row succeeded on an account whose email was
\* something else before.
C1_Witness ==
    /\ pc = "done"
    /\ \E k \in 1..Len(attempts) : \E a \in Ids :
          /\ Succeeded(k, a)
          /\ ~OverwrittenLater(k, a)
          /\ db0[a].email # csv_reader[k].new_email

---------------------------------------------------------------------------
(* C2 *)

\* The row at hand is one whose lookup selects no account or several.
Unresolvable ==
    /\ pc = "row"
    /\ RequiredFields \subseteq DOMAIN row
    /\ Cardinality(Matches(db, row.username, row.email)) # 1

\* C2: a row whose lookup matches zero accounts or more than one goes to the
\* except clause, which appends the row's email to failed_updates; neither
\* step changes an account, sends a message or appends to
\* successful_updates.
C2_UnresolvableRowFails ==
    [][ /\ Unresolvable =>
            /\ pc' = "except"
            /\ exc' \in {"DoesNotExist", "MultipleObjectsReturned"}
            /\ i' = i
            /\ db' = db /\ sent' = sent
            /\ successful_updates' = successful_updates
        /\ (pc = "except" /\ exc \in {"DoesNotExist", "MultipleObjectsReturned"}) =>
            /\ Cardinality(Matches(db, row.username, row.email)) # 1
            /\ failed_updates' = Append(failed_updates, row.email)
            /\ db' = db /\ sent' = sent
            /\ successful_updates' = successful_updates
      ]_vars

\* A run in which one row matched no account and another matched two, and
\* both are recorded.
C2_Witness ==
    /\ AtRowBoundary
    /\ \E j, k \in 1..Len(attempts) :
          /\ attempts[j].matched = {}
          /\ Cardinality(attempts[k].matched) = 2
          /\ attempts[j].list = "failed" /\ attempts[k].list = "failed"

---------------------------------------------------------------------------
(* C3 *)

\* Every processed row made one entry in one list, in file order.
C3_Counts ==
    /\ Len(successful_updates) + Len(failed_updates) = RowsDone
    /\ Len(attempts) = RowsDone
    /\ successful_updates = ExpectedSuccessful
    /\ failed_updates = ExpectedFailed

---------------------------------------------------------------------------
(* C4 *)

\* C4: when user.save() has returned and the notification raises, the
\* account keeps the row's new_email through the except clause, and the row
\* goes to failed_updates with its email and not to successful_updates.
C4_NoRollback ==
    [][ /\ (pc = "send" /\ pc' = "except") =>
            /\ exc' = "SendError"
            /\ db[user].email = row.new_email
            /\ db' = db
        /\ (pc = "except" /\ exc = "SendError") =>
            /\ db[user].email = row.new_email
            /\ db' = db
            /\ failed_updates' = Append(failed_updates, row.email)
            /\ successful_updates' = successful_updates
            /\ attempts'[Len(attempts')].saved
            /\ attempts'[Len(attempts')].list = "failed"
      ]_vars

\* A row was saved, its notification raised, it is recorded as failed and
\* the account holds an email it did not hold before the run.
C4_Witness ==
    /\ AtRowBoundary
    /\ \E k \in 1..Len(attempts) : \E a \in Ids :
          /\ attempts[k].matched = {a}
          /\ attempts[k].saved /\ ~attempts[k].notified
          /\ attempts[k].list = "failed"
          /\ db[a].email = csv_reader[k].new_email
          /\ db0[a].email # csv_reader[k].new_email

---------------------------------------------------------------------------
(* C5 *)

\* At most one summary; it is written when handle() is done, after the last
\* row, as the last log record, and carries the two lists as they are then.
C5_Summary ==
    /\ Cardinality(Summaries) <= 1
    /\ Summaries # {} <=> pc = "done"
    /\ pc = "done" =>
        /\ Len(attempts) = Len(file.rows)
        /\ Len(successful_updates) + Len(failed_updates) = Len(file.rows)
        /\ log[Len(log)] = [level |-> "info", successful |-> successful_updates,
                            failed |-> failed_updates]

C5_State ==
    /\ C5_Summary
    /\ (Loaded /\ HeaderOk) => ~Aborted /\ (pc = "done" \/ ENABLED Next)

\* Every step brings handle() forward, and the except clause continues
\* with the next row.
C5_Step ==
    /\ Progress' > Progress
    /\ pc = "except" =>
        /\ i' = i + 1
        /\ pc' = IF i < Len(csv_reader) THEN "row" ELSE "summary"

---------------------------------------------------------------------------
(* C6 *)

\* C6: when the path is not an existing file, handle() raises CommandError
\* at once: no row is read, no account is looked up or changed, no message
\* is sent and nothing is logged.
C6_MissingFile ==
    ~file.exists =>
        /\ pc \in {"handle", "CommandError"}
        /\ csv_reader = <<>>
        /\ user = None /\ matched = {} /\ attempts = <<>>
        /\ db = db0
        /\ sent = <<>>
        /\ log = <<>>
        /\ successful_updates = <<>> /\ failed_updates = <<>>

\* The command has failed on a missing file.
C6_Witness == ~file.exists /\ pc = "CommandError"

---------------------------------------------------------------------------
(* C7 *)

\* What a step that sends a message, or that appends to successful_updates,
\* looks like.
C7_Step ==
    /\ sent' # sent =>
        /\ pc = "send"
        /\ db[user].email = row.new_email
        /\ db' = db
        /\ Len(sent') = Len(sent) + 1
        /\ sent'[Len(sent')].email_address = row.email
        /\ sent'[Len(sent')].uid = user
        /\ row.email # row.new_email => sent'[Len(sent')].email_address # row.new_email
        /\ successful_updates' = successful_updates
    /\ successful_updates' # successful_updates =>
        /\ successful_updates' = Append(successful_updates, row.new_email)
        /\ Len(sent) = Len(successful_updates) + 1
        /\ sent[Len(sent)].email_address = row.email
        /\ sent[Len(sent)].uid = user
        /\ sent' = sent

\* C7: a message is sent only from the send step, when the account already
\* holds the row's new_email in the store; it is addressed to the row's
\* email, which is not its new_email unless the row gives the same address
\* twice; and new_email is appended to successful_updates only in the step
\* after that send.
C7_SendAfterSaveToOldAddress == [][C7_Step]_vars

\* The message of a row whose email and new_email differ has been sent.
C7_Witness ==
    /\ pc = "append"
    /\ row.email # row.new_email
    /\ db0[user].email # row.new_email
    /\ sent[Len(sent)].email_address = row.email

---------------------------------------------------------------------------
(* C8 *)

\* The account store the command starts from may be one an earlier run of
\* the command left: an Init state with db0 = the store after that run.

\* No account's email matches the row's email any more.
EmailGone(r) == \A a \in Ids : Lower(db0[a].email) # Lower(r.email)

\* The file holds only rows (at least one) that satisfy P.
OnlyRows(P(_)) ==
    /\ csv_reader # <<>>
    /\ \A k \in 1..Len(csv_reader) : P(csv_reader[k])

AlreadyMigrated(r) ==
    /\ EmailGone(r)
    /\ Cardinality({a \in Ids : db0[a].username = r.username}) <= 1

GoneAltogether(r) ==
    /\ EmailGone(r)
    /\ \A a \in Ids : db0[a].username # r.username

AllFailed ==
    /\ successful_updates = <<>>
    /\ failed_updates = [k \in 1..Len(csv_reader) |-> csv_reader[k].email]

\* C8 as stated: a run over a file that holds only rows whose email matches
\* no account any more and whose username is that of at most one account
\* ends with all of them in failed_updates.
C8_MigratedRowsFail ==
    (pc = "done" /\ OnlyRows(AlreadyMigrated)) => AllFailed

\* C8 (amended): a run over a file that holds only rows whose email matches
\* no account any more and whose username is that of no account either ends
\* with all of them in failed_updates, and changes no account.
C8_UnmatchedRowsFail ==
    (pc = "done" /\ OnlyRows(GoneAltogether)) => AllFailed /\ db = db0 /\ sent = <<>>

\* A finished run over two rows that match nothing any more, the first of
\* them describing a migration that the store already shows.
C8_Witness ==
    /\ pc = "done"
    /\ Len(csv_reader) = 2
    /\ OnlyRows(GoneAltogether)
    /\ \E a \in Ids : db0[a].email = csv_reader[1].new_email

---------------------------------------------------------------------------
(* C10 *)

\* C10: when a run has ended, as many messages were sent as there are
\* entries in successful_updates; an account differs from what it was
\* before the run only if the lookup of some row resolved to it alone; an
\* account no lookup matched is unchanged.
C10_Frame ==
    (pc = "done" \/ Aborted) =>
        /\ Len(sent) = Len(successful_updates)
        /\ \A a \in Ids :
            /\ db[a] # db0[a] => \E k \in 1..Len(attempts) : attempts[k].matched = {a}
            /\ (\A k \in 1..Len(attempts) : a \notin attempts[k].matched) => db[a] = db0[a]
            /\ db[a].username = db0[a].username

\* A finished run that changed one account, sent one message and left the
\* other account, which no row matched, as it was.
C10_Witness ==
    /\ pc = "done"
    /\ Len(sent) = 1
    /\ \E a, b \in Ids :
          /\ db[a] # db0[a]
          /\ \A k \in 1..Len(attempts) : b \notin attempts[k].matched
          /\ Len(attempts) = 2

---------------------------------------------------------------------------
(* C9, under SpecOrder *)

\* Row r's lookup keys or new_email match account a, as the store has it
\* or as row other leaves it.
KeysMatch(store, r, a, other) ==
    \/ r.username = store[a].username
    \/ IExact(r.email, store[a].email)
    \/ IExact(r.email, other.new_email)
    \/ IExact(r.new_email, store[a].email)
    \/ IExact(r.new_email, other.new_email)

\* No row's lookup keys or new_email match an account that another row
\* touches.
ConflictFree(store, rows) ==
    \A j, k \in 1..Len(rows) :
        j # k =>
            \A a \in Matches(store, rows[j].username, rows[j].email) :
                ~KeysMatch(store, rows[k], a, rows[j])

\* C9: for the rows of a file without conflicts between rows, processed in
\* two orders from the same store, every row lands in the same list in both
\* orders and the stores are equal at the end.
C9_OrderIndependent ==
    (pc = "done" /\ ConflictFree(db0, file.rows)) =>
        /\ Len(attempts) = Len(file.rows)
        /\ Len(reordered.run.attempts) = Len(file.rows)
        /\ \A k \in 1..Len(file.rows) :
              reordered.run.attempts[k].list = attempts[reordered.order[k]].list
        /\ reordered.run.db = db

\* Two rows without conflict, processed in the two orders: one resolves and
\* succeeds, the other matches nothing and fails; the orders differ.
C9_Witness ==
    /\ pc = "done"
    /\ Len(file.rows) = 2
    /\ ConflictFree(db0, file.rows)
    /\ reordered.order[1] = 2
    /\ attempts[1].list = "failed"
    /\ attempts[2].list = "successful"
    /\ db # db0

===========================================================================
